---- MODULE Spec2Model ----
(***************************************************************************)
(* EngPal backend: the review and assignment handlers, their validators,   *)
(* response parsers and TTL caches, as a state machine.                    *)
(*                                                                         *)
(* Go strings of a request are kept run-length encoded: a string is a      *)
(* sequence of runs [c |-> character, n |-> repetitions], n >= 1, in       *)
(* canonical form (adjacent runs carry different characters), so that two  *)
(* strings are equal exactly when their encodings are equal and a request  *)
(* of a megabyte stays a short value.                                      *)
(*                                                                         *)
(* The clock counts units of ten minutes. The two endpoint families       *)
(* (review, assignment) share no state but the read-only client, so a run  *)
(* exercises one of them, chosen at the start.                             *)
(***************************************************************************)
EXTENDS Integers, Sequences, FiniteSets, TLC

VARIABLES
    proc,          \* proc[p]: the goroutine serving request slot p
    reviewCache,   \* var reviewCache  map[string]reviewCacheItem
    cache,         \* var cache        map[string]cacheItem
    clock,         \* wall clock (time.Now())
    GeminiClient,  \* internal.GeminiClient # nil
    family,        \* the endpoint family this run exercises
    input,         \* argument of the function under test (function specs)
    output         \* its result

vars == <<proc, reviewCache, cache, clock, GeminiClient, family, input, output>>

-----------------------------------------------------------------------------
(* Bounds *)

NumProcs == 2      \* concurrent request slots
MaxTime == 7       \* the clock stops here
MaxRuns == 3       \* runs in an enumerated short string
MaxMembers == 3    \* members of an enumerated upstream JSON object
BigLen == 16777216 \* length of the long requirement text
MaxTypes == 3      \* question types in an enumerated assignment request
MaxQuizzes == 2    \* items in an enumerated upstream quiz document
MaxOptions == 3    \* options of an enumerated candidate item
MaxWordRuns == 4   \* runs in an enumerated text to count the words of

-----------------------------------------------------------------------------
(* Program constants *)

MIN_TOTAL_WORDS == 10
MAX_TOTAL_WORDS == 1000
CACHE_DURATION == 6              \* 1 * time.Hour, in ten-minute units
ASSIGNMENT_CACHE_DURATION == 1   \* 10 * time.Minute, in ten-minute units
MAX_TOPIC_WORDS == 10
MAX_TOTAL_QUESTIONS == 50
KEY_LOG_PREFIX == 10             \* cacheKey[:10]

-----------------------------------------------------------------------------
(* Strings *)

Run(c, n) == [c |-> c, n |-> n]

\* a Go string literal of distinct adjacent characters
Lit(chars) == [i \in 1..Len(chars) |-> Run(chars[i], 1)]

Space == {" ", "\n"}

IsSpaceRun(r) == r.c \in Space

RECURSIVE StrLen(_)
StrLen(s) == IF s = <<>> THEN 0 ELSE Head(s).n + StrLen(Tail(s))

\* canonical form: adjacent runs of one character are one run
RECURSIVE Norm(_)
Norm(s) ==
    IF Len(s) < 2 THEN s
    ELSE IF s[1].c = s[2].c
         THEN Norm(<<Run(s[1].c, s[1].n + s[2].n)>> \o SubSeq(s, 3, Len(s)))
         ELSE <<s[1]>> \o Norm(Tail(s))

Concat(s, t) ==
    IF s = <<>> THEN t
    ELSE IF t = <<>> THEN s
    ELSE IF s[Len(s)].c = t[1].c
         THEN SubSeq(s, 1, Len(s) - 1) \o <<Run(t[1].c, s[Len(s)].n + t[1].n)>> \o Tail(t)
         ELSE s \o t

LowerChar(c) == CASE c = "A" -> "a" [] c = "B" -> "b" [] c = "C" -> "c"
                  [] c = "E" -> "e" [] c = "Z" -> "z" [] OTHER -> c

UpperChar(c) == CASE c = "a" -> "A" [] c = "b" -> "B" [] c = "c" -> "C"
                  [] c = "e" -> "E" [] c = "z" -> "Z" [] OTHER -> c

ToLower(s) == Norm([i \in 1..Len(s) |-> Run(LowerChar(s[i].c), s[i].n)])

ToUpper(s) == Norm([i \in 1..Len(s) |-> Run(UpperChar(s[i].c), s[i].n)])

TrimSpace(s) ==
    LET keep == {i \in 1..Len(s) : ~IsSpaceRun(s[i])}
    IN  IF keep = {} THEN <<>>
        ELSE LET lo == CHOOSE i \in keep : \A j \in keep : i <= j
                 hi == CHOOSE i \in keep : \A j \in keep : j <= i
             IN  SubSeq(s, lo, hi)

\* len(strings.Fields(s)): the maximal groups of non-space characters
FieldsLen(s) ==
    Cardinality({i \in 1..Len(s) :
                    ~IsSpaceRun(s[i]) /\ (i = 1 \/ IsSpaceRun(s[i - 1]))})

\* a count of the runs of the encoding that are not white space
getTotalWords_runs(s) ==
    IF TrimSpace(s) = <<>> THEN 0
    ELSE Cardinality({i \in 1..Len(s) : ~IsSpaceRun(s[i])})

getTotalWords(s) == IF TrimSpace(s) = <<>> THEN 0 ELSE FieldsLen(s)

\* utils.GetTotalWords
GetTotalWords(s) == FieldsLen(s)

\* getTotalWords of the placeholder review handler
handlerGetTotalWords(s) == FieldsLen(s)

DigitChar(d) == CASE d = 0 -> "0" [] d = 1 -> "1" [] d = 2 -> "2" [] d = 3 -> "3"
                  [] d = 4 -> "4" [] d = 5 -> "5" [] d = 6 -> "6" [] d = 7 -> "7"
                  [] d = 8 -> "8" [] d = 9 -> "9" [] d = 10 -> "a" [] d = 11 -> "b"
                  [] d = 12 -> "c" [] d = 13 -> "d" [] d = 14 -> "e" [] d = 15 -> "f"

\* the digits of n >= 0 in the given base, most significant first
RECURSIVE Digits(_, _)
Digits(n, base) ==
    IF n < base THEN <<Run(DigitChar(n), 1)>>
    ELSE Concat(Digits(n \div base, base), <<Run(DigitChar(n % base), 1)>>)

\* strconv.Itoa(n)
Itoa(n) == IF n < 0 THEN Concat(Lit(<<"-">>), Digits(0 - n, 10)) ELSE Digits(n, 10)

\* fmt.Sprintf("%x", n), n >= 0
Hex(n) == Digits(n, 16)

\* a Go string given by its characters
Str(chars) == Norm(Lit(chars))

-----------------------------------------------------------------------------
(* Errors and HTTP responses *)

NoError == [msg |-> "nil", args |-> <<>>]

\* errors.New(msg)
ErrorsNew(msg) == [msg |-> msg, args |-> <<>>]

\* fmt.Errorf(format, n): the message names n
Errorf(format, n) == [msg |-> format, args |-> <<n>>]

NoResponse == [status |-> -1, body |-> [none |-> TRUE]]

\* the handler panicked: net/http recovers, logs and closes the connection
Panicked == [status |-> 0, body |-> [panic |-> "slice bounds out of range"]]

Respond(status, body) == [status |-> status, body |-> body]

-----------------------------------------------------------------------------
(* Review requests: validation and cache key *)

reviewEnglishLevels ==
    {Str(<<"A", "1">>), Str(<<"A", "2">>), Str(<<"B", "1">>),
     Str(<<"B", "2">>), Str(<<"C", "1">>), Str(<<"C", "2">>)}

\* a validator that also turns away a text of exactly the minimum length
validateReviewRequest_offByOne(request) ==
    LET Content == TrimSpace(request.Content)
        wordCount == getTotalWords(Content)
    IN  IF Content = <<>> THEN
            ErrorsNew("noi dung bai viet khong duoc de trong")
        ELSE IF wordCount <= MIN_TOTAL_WORDS THEN
            Errorf("bai viet phai dai toi thieu %d tu", MIN_TOTAL_WORDS)
        ELSE IF wordCount > MAX_TOTAL_WORDS THEN
            Errorf("bai viet khong duoc dai hon %d tu", MAX_TOTAL_WORDS)
        ELSE IF request.UserLevel # <<>>
                /\ ToUpper(request.UserLevel) \notin reviewEnglishLevels THEN
            ErrorsNew("trinh do tieng Anh khong hop le (A1, A2, B1, B2, C1, C2)")
        ELSE NoError

validateReviewRequest(request) ==
    LET Content == TrimSpace(request.Content)
        wordCount == getTotalWords(Content)
    IN  IF Content = <<>> THEN
            ErrorsNew("noi dung bai viet khong duoc de trong")
        ELSE IF wordCount < MIN_TOTAL_WORDS THEN
            Errorf("bai viet phai dai toi thieu %d tu", MIN_TOTAL_WORDS)
        ELSE IF wordCount > MAX_TOTAL_WORDS THEN
            Errorf("bai viet khong duoc dai hon %d tu", MAX_TOTAL_WORDS)
        ELSE IF request.UserLevel # <<>>
                /\ ToUpper(request.UserLevel) \notin reviewEnglishLevels THEN
            ErrorsNew("trinh do tieng Anh khong hop le (A1, A2, B1, B2, C1, C2)")
        ELSE NoError

Dash == Str(<<"-">>)

generateReviewCacheKey(req) ==
    LET key == Concat(Concat(Concat(Concat(Concat(Concat(
                   ToLower(req.Content), Dash), req.UserLevel), Dash),
                   req.Requirement), Dash), req.Category)
    IN  Concat(Concat(Hex(StrLen(key)), Dash), Itoa(getTotalWords(req.Content)))

-----------------------------------------------------------------------------
(* Assignment requests: validation and cache key *)

\* a validator that forgets to compare the number of types with the total
validateRequest_noTypeCount(request) ==
    LET Topic == TrimSpace(request.Topic)
    IN  IF Topic = <<>> THEN
            ErrorsNew("ten chu de khong duoc de trong")
        ELSE IF FieldsLen(Topic) > MAX_TOPIC_WORDS THEN
            ErrorsNew("chu de khong duoc chua nhieu hon 10 tu")
        ELSE IF request.TotalQuestions < 1
                \/ request.TotalQuestions > MAX_TOTAL_QUESTIONS THEN
            ErrorsNew("so luong cau hoi phai nam trong khoang 1 den 50")
        ELSE IF Len(request.AssignmentTypes) = 0 THEN
            ErrorsNew("phai chon it nhat mot loai cau hoi")
        ELSE NoError

validateRequest(request) ==
    LET Topic == TrimSpace(request.Topic)
    IN  IF Topic = <<>> THEN
            ErrorsNew("ten chu de khong duoc de trong")
        ELSE IF FieldsLen(Topic) > MAX_TOPIC_WORDS THEN
            ErrorsNew("chu de khong duoc chua nhieu hon 10 tu")
        ELSE IF request.TotalQuestions < 1
                \/ request.TotalQuestions > MAX_TOTAL_QUESTIONS THEN
            ErrorsNew("so luong cau hoi phai nam trong khoang 1 den 50")
        ELSE IF Len(request.AssignmentTypes) > request.TotalQuestions THEN
            ErrorsNew("so luong cau hoi khong duoc nho hon so dang cau hoi ma ban chon")
        ELSE IF Len(request.AssignmentTypes) = 0 THEN
            ErrorsNew("phai chon it nhat mot loai cau hoi")
        ELSE NoError

\* strings.Join(elems, sep)
RECURSIVE Join(_, _)
Join(elems, sep) ==
    IF elems = <<>> THEN <<>>
    ELSE IF Len(elems) = 1 THEN elems[1]
    ELSE Concat(Concat(elems[1], sep), Join(Tail(elems), sep))

generateCacheKey(req) ==
    Concat(Concat(Concat(Concat(Concat(Concat(
        ToLower(req.Topic), Dash), Join(req.AssignmentTypes, Dash)), Dash),
        req.EnglishLevel), Dash), Itoa(req.TotalQuestions))

-----------------------------------------------------------------------------
(* JSON values and encoding/json's Unmarshal                                *)
(*                                                                          *)
(* A JSON value is [t, v]: a string, a number, null, an array (a sequence   *)
(* of values) or an object (a sequence of members <<name, value>>, in the   *)
(* order of the text; a name may occur more than once).                     *)

JStr(s) == [t |-> "str", v |-> s]
JNum(n) == [t |-> "num", v |-> n]
JNull == [t |-> "null", v |-> 0]
JArr(elems) == [t |-> "arr", v |-> elems]
JObj(members) == [t |-> "obj", v |-> members]

\* Go types: a struct lists its fields as <<json name, field name, type>>
TString == [k |-> "string", elem |-> <<>>, fields |-> <<>>]
TNumber == [k |-> "number", elem |-> <<>>, fields |-> <<>>]
TSlice(T) == [k |-> "slice", elem |-> <<T>>, fields |-> <<>>]
TStruct(fields) == [k |-> "struct", elem |-> <<>>, fields |-> fields]

RECURSIVE Zero(_)
Zero(T) ==
    CASE T.k = "string" -> <<>>
      [] T.k = "number" -> 0
      [] T.k = "slice" -> <<>>
      [] T.k = "struct" ->
            [n \in {T.fields[i][2] : i \in 1..Len(T.fields)} |->
                LET i == CHOOSE i \in 1..Len(T.fields) : T.fields[i][2] = n
                IN  Zero(T.fields[i][3])]

\* Decode(cur, T, jv): the value of type T after decoding jv into cur, and
\* whether an UnmarshalTypeError was saved; decoding goes on after one.
RECURSIVE Decode(_, _, _), DecodeMembers(_, _, _), DecodeElems(_, _)

Decode(cur, T, jv) ==
    IF jv.t = "null" THEN
        [val |-> IF T.k = "slice" THEN <<>> ELSE cur, err |-> FALSE]
    ELSE CASE T.k = "string" ->
                IF jv.t = "str" THEN [val |-> jv.v, err |-> FALSE]
                ELSE [val |-> cur, err |-> TRUE]
           [] T.k = "number" ->
                IF jv.t = "num" THEN [val |-> jv.v, err |-> FALSE]
                ELSE [val |-> cur, err |-> TRUE]
           [] T.k = "slice" ->
                IF jv.t = "arr" THEN DecodeElems(T.elem[1], jv.v)
                ELSE [val |-> cur, err |-> TRUE]
           [] T.k = "struct" ->
                IF jv.t = "obj" THEN DecodeMembers(cur, T, jv.v)
                ELSE [val |-> cur, err |-> TRUE]

DecodeMembers(cur, T, members) ==
    IF members = <<>> THEN [val |-> cur, err |-> FALSE]
    ELSE LET m == Head(members)
             hit == {i \in 1..Len(T.fields) : T.fields[i][1] = m[1]}
         IN  IF hit = {} THEN DecodeMembers(cur, T, Tail(members))
             ELSE LET f == T.fields[CHOOSE i \in hit : TRUE]
                      one == Decode(cur[f[2]], f[3], m[2])
                      rest == DecodeMembers([cur EXCEPT ![f[2]] = one.val],
                                            T, Tail(members))
                  IN  [val |-> rest.val, err |-> one.err \/ rest.err]

DecodeElems(T, elems) ==
    IF elems = <<>> THEN [val |-> <<>>, err |-> FALSE]
    ELSE LET one == Decode(Zero(T), T, Head(elems))
             rest == DecodeElems(T, Tail(elems))
         IN  [val |-> <<one.val>> \o rest.val, err |-> one.err \/ rest.err]

(* Upstream text: a sequence of tokens, each white space, a code fence     *)
(* (with or without the json tag), a JSON document or other text.         *)

WsTok == [tok |-> "ws", doc |-> JNull]
FenceJsonTok == [tok |-> "fence_json", doc |-> JNull]
FenceTok == [tok |-> "fence", doc |-> JNull]
JunkTok == [tok |-> "junk", doc |-> JNull]
DocTok(jv) == [tok |-> "json", doc |-> jv]

RECURSIVE TrimLeftWs(_)
TrimLeftWs(text) ==
    IF text # <<>> /\ Head(text).tok = "ws" THEN TrimLeftWs(Tail(text)) ELSE text

RECURSIVE TrimRightWs(_)
TrimRightWs(text) ==
    IF text # <<>> /\ text[Len(text)].tok = "ws"
    THEN TrimRightWs(SubSeq(text, 1, Len(text) - 1)) ELSE text

TrimSpaceText(text) == TrimRightWs(TrimLeftWs(text))

TrimPrefixText(text, fence) ==
    IF text # <<>> /\ Head(text).tok = fence THEN Tail(text) ELSE text

TrimSuffixText(text, fence) ==
    IF text # <<>> /\ text[Len(text)].tok = fence
    THEN SubSeq(text, 1, Len(text) - 1) ELSE text

\* the four cleaning lines of both parsers
CleanResponse(response) ==
    TrimSpaceText(TrimSuffixText(TrimPrefixText(TrimSpaceText(response),
                                                "fence_json"), "fence"))

\* json.Unmarshal([]byte(text), &v) with v the zero value of T: invalid
\* text is a SyntaxError and decodes nothing
Unmarshal(text, T) ==
    LET body == TrimSpaceText(text)
    IN  IF Len(body) = 1 /\ body[1].tok = "json"
        THEN Decode(Zero(T), T, body[1].doc)
        ELSE [val |-> Zero(T), err |-> TRUE]

-----------------------------------------------------------------------------
(* Review: the upstream payload and its parser *)

ReviewCriteria ==
    TStruct(<< <<"grammar", "Grammar", TNumber>>,
               <<"vocabulary", "Vocabulary", TNumber>>,
               <<"coherence", "Coherence", TNumber>>,
               <<"task_response", "TaskResponse", TNumber>>,
               <<"overall", "Overall", TNumber>> >>)

ReviewSuggestion ==
    TStruct(<< <<"category", "Category", TString>>,
               <<"issue", "Issue", TString>>,
               <<"suggestion", "Suggestion", TString>>,
               <<"example", "Example", TString>>,
               <<"priority", "Priority", TString>> >>)

\* the fields of GeminiReviewData, with the given type for suggestions
ReviewDataFields(suggestions) ==
    << <<"estimated_level", "EstimatedLevel", TString>>,
       <<"scores", "Scores", ReviewCriteria>>,
       <<"overall_feedback", "OverallFeedback", TString>>,
       <<"strength_points", "StrengthPoints", TSlice(TString)>>,
       <<"improvement_areas", "ImprovementAreas", TSlice(TString)>>,
       <<"suggestions", "Suggestions", suggestions>>,
       <<"corrected_version", "CorrectedVersion", TString>> >>

GeminiReviewData == TStruct(ReviewDataFields(TSlice(ReviewSuggestion)))

\* the anonymous struct of the fallback: suggestions as []string
FallbackReviewData == TStruct(ReviewDataFields(TSlice(TString)))

DefaultSuggestion ==
    [Category |-> Str(<<"G", "e", "n", "e", "r", "a", "l">>),
     Issue |-> Str(<<"C", "o", "n", "t", "i", "n", "u", "e", " ", "p", "r", "a", "c", "t", "i", "c", "i", "n", "g">>),
     Suggestion |->
        Str(<<"K", "e", "e", "p", " ", "w", "r", "i", "t", "i", "n", "g", " ", "r", "e", "g", "u", "l", "a", "r", "l", "y", " ", "t", "o", " ", "i", "m", "p", "r", "o", "v", "e", " ", "y", "o", "u", "r", " ", "s", "k", "i", "l", "l", "s">>),
     Example |->
        Str(<<"P", "r", "a", "c", "t", "i", "c", "e", " ", "d", "i", "f", "f", "e", "r", "e", "n", "t", " ", "t", "y", "p", "e", "s", " ", "o", "f", " ", "w", "r", "i", "t", "i", "n", "g">>),
     Priority |-> Str(<<"M", "e", "d", "i", "u", "m">>)]

\* the result of a parser: data is meaningful when err = NoError
Parsed(data) == [data |-> data, err |-> NoError]
ParseError(T, err) == [data |-> Zero(T), err |-> err]

\* a parser whose fallback labels the converted suggestions with a category
parseGeminiReviewResponse_labels(response) ==
    LET text == CleanResponse(response)
        strict == Unmarshal(text, GeminiReviewData)
        fallback == Unmarshal(text, FallbackReviewData)
        reviewData == strict.val
    IN  IF strict.err THEN
            IF ~fallback.err THEN
                LET sugs == [i \in 1..Len(fallback.val.Suggestions) |->
                                [Category |-> Str(<<"G">>), Issue |-> <<>>,
                                 Suggestion |-> fallback.val.Suggestions[i],
                                 Example |-> <<>>, Priority |-> <<>>]]
                IN  Parsed([fallback.val EXCEPT !.Suggestions = sugs])
            ELSE ParseError(GeminiReviewData,
                            ErrorsNew("failed to parse review JSON: %w"))
        ELSE IF reviewData.OverallFeedback = <<>> THEN
            ParseError(GeminiReviewData,
                       ErrorsNew("missing overall feedback in API response"))
        ELSE Parsed([reviewData EXCEPT
                        !.EstimatedLevel = IF @ = <<>> THEN Str(<<"B", "1">>) ELSE @,
                        !.Suggestions = IF Len(@) = 0
                                        THEN <<DefaultSuggestion>> ELSE @])

parseGeminiReviewResponse(response) ==
    LET text == CleanResponse(response)
        strict == Unmarshal(text, GeminiReviewData)
        fallback == Unmarshal(text, FallbackReviewData)
        reviewData == strict.val
    IN  IF strict.err THEN
            IF ~fallback.err THEN
                LET sugs == [i \in 1..Len(fallback.val.Suggestions) |->
                                [Category |-> <<>>, Issue |-> <<>>,
                                 Suggestion |-> fallback.val.Suggestions[i],
                                 Example |-> <<>>, Priority |-> <<>>]]
                IN  Parsed([fallback.val EXCEPT !.Suggestions = sugs])
            ELSE ParseError(GeminiReviewData,
                            ErrorsNew("failed to parse review JSON: %w"))
        ELSE IF reviewData.OverallFeedback = <<>> THEN
            ParseError(GeminiReviewData,
                       ErrorsNew("missing overall feedback in API response"))
        ELSE Parsed([reviewData EXCEPT
                        !.EstimatedLevel = IF @ = <<>> THEN Str(<<"B", "1">>) ELSE @,
                        !.Suggestions = IF Len(@) = 0
                                        THEN <<DefaultSuggestion>> ELSE @])

-----------------------------------------------------------------------------
(* Assignment: the upstream payload and its parser *)

MultipleChoice == Str(<<"M", "u", "l", "t", "i", "p", "l", "e", " ", "C", "h", "o", "i", "c", "e">>)
FillInTheBlank ==
    Str(<<"F", "i", "l", "l", " ", "i", "n", " ", "t", "h", "e", " ", "B", "l", "a", "n", "k">>)
ShortAnswer == Str(<<"S", "h", "o", "r", "t", " ", "A", "n", "s", "w", "e", "r">>)
Essay == Str(<<"E", "s", "s", "a", "y">>)

\* var assignmentTypes = map[int]string{1: ..., 4: ...}
assignmentTypes == <<MultipleChoice, FillInTheBlank, ShortAnswer, Essay>>

GeminiQuiz ==
    TStruct(<< <<"type", "Type", TString>>,
               <<"question", "Question", TString>>,
               <<"answer", "Answer", TString>>,
               <<"options", "Options", TSlice(TString)>>,
               <<"correct_index", "CorrectIndex", TNumber>>,
               <<"explanation", "Explanation", TString>> >>)

GeminiQuizData == TStruct(<< <<"quizzes", "Quizzes", TSlice(GeminiQuiz)>> >>)

contains(slice, item) == \E i \in 1..Len(slice) : slice[i] = item

\* a check that lets a multiple-choice item with a single option through
isValidQuiz_oneOption(quiz) ==
    IF quiz.Question = <<>> THEN FALSE
    ELSE CASE quiz.Type = MultipleChoice ->
                /\ Len(quiz.Options) >= 1
                /\ quiz.CorrectIndex >= 0
                /\ quiz.CorrectIndex < Len(quiz.Options)
           [] quiz.Type = FillInTheBlank -> quiz.Answer # <<>>
           [] quiz.Type = ShortAnswer -> quiz.Answer # <<>>
           [] quiz.Type = Essay -> TRUE
           [] OTHER -> FALSE

isValidQuiz(quiz) ==
    IF quiz.Question = <<>> THEN FALSE
    ELSE CASE quiz.Type = MultipleChoice ->
                /\ Len(quiz.Options) >= 2
                /\ quiz.CorrectIndex >= 0
                /\ quiz.CorrectIndex < Len(quiz.Options)
           [] quiz.Type = FillInTheBlank -> quiz.Answer # <<>>
           [] quiz.Type = ShortAnswer -> quiz.Answer # <<>>
           [] quiz.Type = Essay -> TRUE
           [] OTHER -> FALSE

parseGeminiResponse(response, requestedTypes) ==
    LET geminiData == Unmarshal(CleanResponse(response), GeminiQuizData)
        quiz(gQuiz) == [ID |-> 0,
                        Type |-> gQuiz.Type,
                        Question |-> TrimSpace(gQuiz.Question),
                        Answer |-> TrimSpace(gQuiz.Answer),
                        Options |-> gQuiz.Options,
                        CorrectIndex |-> gQuiz.CorrectIndex,
                        Explanation |-> TrimSpace(gQuiz.Explanation)]
        all == [i \in 1..Len(geminiData.val.Quizzes) |->
                    quiz(geminiData.val.Quizzes[i])]
        keep(q) == contains(requestedTypes, q.Type) /\ isValidQuiz(q)
    IN  IF geminiData.err
        THEN [data |-> <<>>, err |-> ErrorsNew("failed to parse JSON: %w")]
        ELSE [data |-> SelectSeq(all, keep), err |-> NoError]

\* the tail of generateQuizzesWithGemini: truncate, number, wrap
quizResponse(req, quizzes) ==
    LET limited == IF Len(quizzes) > req.TotalQuestions
                   THEN SubSeq(quizzes, 1, req.TotalQuestions) ELSE quizzes
        numbered == [i \in 1..Len(limited) |-> [limited[i] EXCEPT !.ID = i]]
    IN  [Topic |-> req.Topic, Level |-> req.EnglishLevel,
         Total |-> req.TotalQuestions, Generated |-> Len(numbered),
         Quizzes |-> numbered]

-----------------------------------------------------------------------------
(* The caches *)

NoData == [none |-> TRUE]

\* item, found := m[key]
Lookup(m, key) ==
    IF key \in DOMAIN m
    THEN [found |-> TRUE, Data |-> m[key].Data, ExpiresAt |-> m[key].ExpiresAt]
    ELSE [found |-> FALSE, Data |-> NoData, ExpiresAt |-> 0]

\* m[key] = item
Store(m, key, item) ==
    [k \in DOMAIN m \cup {key} |-> IF k = key THEN item ELSE m[k]]

\* found && item.ExpiresAt.After(now)
IsHit(item, now) == item.found /\ item.ExpiresAt > now

EmptyMap == [k \in {} |-> NoData]

-----------------------------------------------------------------------------
(* Prompts                                                                 *)
(*                                                                         *)
(* fmt.Sprintf(format, args...) on a constant format is kept as the format *)
(* and the sequence of its arguments. A range over a Go map visits the     *)
(* keys in an order the runtime picks at each loop; the order is an        *)
(* argument of the operators that range over one.                          *)

Sprintf(format, args) == [format |-> format, args |-> args]

\* the key of englishLevels[i] as a string
englishLevels ==
    <<Str(<<"A", "1", " ", "-", " ", "B", "e", "g", "i", "n", "n", "e",
           "r">>),
       Str(<<"A", "2", " ", "-", " ", "E", "l", "e", "m", "e", "n", "t",
           "a", "r", "y">>),
       Str(<<"B", "1", " ", "-", " ", "I", "n", "t", "e", "r", "m", "e",
           "d", "i", "a", "t", "e">>),
       Str(<<"B", "2", " ", "-", " ", "U", "p", "p", "e", "r", " ", "I",
           "n", "t", "e", "r", "m", "e", "d", "i", "a", "t", "e">>),
       Str(<<"C", "1", " ", "-", " ", "A", "d", "v", "a", "n", "c", "e",
           "d">>),
       Str(<<"C", "2", " ", "-", " ", "P", "r", "o", "f", "i", "c", "i",
           "e", "n", "t">>)>>

\* difficulty, exists := difficultyMapping[level]
difficultyMapping(level) ==
    CASE level = englishLevels[1] ->
            [exists |-> TRUE, difficulty |-> "very basic vocabulary and simple grammar structures"]
      [] level = englishLevels[2] ->
            [exists |-> TRUE, difficulty |-> "basic vocabulary with simple past and present tenses"]
      [] level = englishLevels[3] ->
            [exists |-> TRUE, difficulty |-> "intermediate vocabulary with complex sentence structures"]
      [] level = englishLevels[4] ->
            [exists |-> TRUE, difficulty |-> "advanced vocabulary with sophisticated grammar"]
      [] level = englishLevels[5] ->
            [exists |-> TRUE, difficulty |-> "complex vocabulary with nuanced language usage"]
      [] level = englishLevels[6] ->
            [exists |-> TRUE, difficulty |-> "expert-level vocabulary with native-like complexity"]
      [] OTHER -> [exists |-> FALSE, difficulty |-> ""]

\* level, exists := reviewEnglishLevels[key]
reviewEnglishLevelOf(key) ==
    CASE key = Str(<<"A", "1">>) -> [exists |-> TRUE, level |-> "A1 - Beginner"]
      [] key = Str(<<"A", "2">>) -> [exists |-> TRUE, level |-> "A2 - Elementary"]
      [] key = Str(<<"B", "1">>) -> [exists |-> TRUE, level |-> "B1 - Intermediate"]
      [] key = Str(<<"B", "2">>) -> [exists |-> TRUE, level |-> "B2 - Upper Intermediate"]
      [] key = Str(<<"C", "1">>) -> [exists |-> TRUE, level |-> "C1 - Advanced"]
      [] key = Str(<<"C", "2">>) -> [exists |-> TRUE, level |-> "C2 - Proficient"]
      [] OTHER -> [exists |-> FALSE, level |-> ""]

\* cat, exists := writingCategories[key]
writingCategories(key) ==
    CASE key = Str(<<"e", "s", "s", "a", "y">>) ->
            [exists |-> TRUE, cat |-> "Academic Essay"]
      [] key = Str(<<"l", "e", "t", "t", "e", "r">>) ->
            [exists |-> TRUE, cat |-> "Formal/Informal Letter"]
      [] key = Str(<<"r", "e", "p", "o", "r", "t">>) ->
            [exists |-> TRUE, cat |-> "Report Writing"]
      [] key = Str(<<"a", "r", "t", "i", "c", "l", "e">>) ->
            [exists |-> TRUE, cat |-> "Article Writing"]
      [] key = Str(<<"s", "t", "o", "r", "y">>) ->
            [exists |-> TRUE, cat |-> "Creative Writing"]
      [] key = Str(<<"e", "m", "a", "i", "l">>) ->
            [exists |-> TRUE, cat |-> "Email Writing"]
      [] key = Str(<<"d", "e", "s", "c", "r", "i", "p", "t", "i", "o", "n">>) ->
            [exists |-> TRUE, cat |-> "Descriptive Writing"]
      [] key = Str(<<"o", "p", "i", "n", "i", "o", "n">>) ->
            [exists |-> TRUE, cat |-> "Opinion Writing"]
      [] OTHER -> [exists |-> FALSE, cat |-> ""]

LanguageVi == Str(<<"v", "i">>)

buildReviewPrompt(req) ==
    LET level == reviewEnglishLevelOf(ToUpper(req.UserLevel))
        userLevelDesc == IF req.UserLevel # <<>> /\ level.exists
                         THEN level.level ELSE "intermediate"
        cat == writingCategories(ToLower(req.Category))
        category == IF req.Category # <<>> /\ cat.exists
                    THEN cat.cat ELSE "general writing"
        responseLanguagePrompt == IF req.Language = LanguageVi
                                  THEN "Tieng Viet" ELSE "English"
        wordCount == getTotalWords(req.Content)
    IN  Sprintf("You are an expert English teacher and IELTS examiner. ...",
                <<req.Content, userLevelDesc, category, req.Requirement,
                  wordCount, responseLanguagePrompt>>)

\* the loop of distributeQuestionTypes from index i (0-based, as in the code)
RECURSIVE distributeLoop(_, _, _, _, _)
distributeLoop(distribution, types, i, baseCount, remainder) ==
    IF i >= Len(types) THEN distribution
    ELSE LET questionType == types[i + 1]
             count == IF i < remainder THEN baseCount + 1 ELSE baseCount
         IN  distributeLoop(Store(distribution, questionType, count),
                            types, i + 1, baseCount, remainder)

\* called with len(types) >= 1 only: buildGeminiPrompt runs on validated
\* requests
distributeQuestionTypes(types, total) ==
    LET baseCount == total \div Len(types)
        remainder == total % Len(types)
    IN  distributeLoop(EmptyMap, types, 0, baseCount, remainder)

\* the orders in which a range can visit the keys of a map
RangeOrders(m) ==
    {order \in [1..Cardinality(DOMAIN m) -> DOMAIN m] :
        \A i, j \in DOMAIN order : i # j => order[i] # order[j]}

formatTypeDistribution(dist, order) ==
    LET part(qType) ==
            Concat(Concat(Concat(Concat(Str(<<"-", " ">>), qType),
                Str(<<":", " ">>)), Itoa(dist[qType])),
                Str(<<" ", "q", "u", "e", "s", "t", "i", "o", "n", "s">>))
        parts == [i \in DOMAIN order |-> part(order[i])]
    IN  Join(parts, Str(<<"\n">>))

buildGeminiPrompt(req, order) ==
    LET found == difficultyMapping(req.EnglishLevel)
        difficulty == IF found.exists THEN found.difficulty
                      ELSE "intermediate level"
        typeDistribution == distributeQuestionTypes(req.AssignmentTypes,
                                                    req.TotalQuestions)
    IN  Sprintf("Create %d high-quality quiz questions about ...",
                <<req.TotalQuestions, req.Topic, req.EnglishLevel,
                  req.EnglishLevel, difficulty, req.Topic, req.TotalQuestions,
                  formatTypeDistribution(typeDistribution, order),
                  req.TotalQuestions>>)

-----------------------------------------------------------------------------
(* Request slots *)

Procs == 1..NumProcs

NoBody == [ok |-> FALSE, req |-> <<>>]

IdleProc ==
    [pc |-> "idle", kind |-> "none", body |-> NoBody, now |-> 0,
     calls |-> 0, quizzes |-> <<>>, err |-> NoError, resp |-> NoResponse]

\* the handler has returned: what is left is the request and the answer
Answered(kind, body, resp) ==
    [IdleProc EXCEPT !.pc = "done", !.kind = kind, !.body = body, !.resp = resp]

\* an upstream answer: the text of result.Text(), or the SDK's error
UpstreamText(text) == [text |-> text, err |-> NoError]
UpstreamError == [text |-> <<>>, err |-> ErrorsNew("upstream error")]

\* client := internal.GeminiClient; if client == nil ... (both adapters)
callGemini(outcome) ==
    IF ~GeminiClient
    THEN [text |-> <<>>, err |-> ErrorsNew("Gemini client not initialized")]
    ELSE outcome

-----------------------------------------------------------------------------
(* GenerateReview *)

\* decode and validate: the 400 answer, or NoResponse to go on
GenerateReview_validate(body) ==
    IF ~body.ok THEN Respond(400, ErrorsNew("Invalid JSON request"))
    ELSE LET err == validateReviewRequest(body.req)
         IN  IF err # NoError THEN Respond(400, err) ELSE NoResponse

serviceUnavailable ==
    Respond(503, [error |-> "service_unavailable",
                  message |-> "## CANH BAO EngPal dang ban di pha ca phe ..."])

\* GeneratedAt and ProcessingTime are write-only (no handler reads them
\* back) and are not carried
generateReviewWithGemini(req, startTime, outcome) ==
    LET geminiResp == callGemini(outcome)
        reviewData == parseGeminiReviewResponse(geminiResp.text)
    IN  IF geminiResp.err # NoError THEN
            [data |-> NoData, err |-> ErrorsNew("gemini API call failed: %w")]
        ELSE IF reviewData.err # NoError THEN
            [data |-> NoData, err |-> ErrorsNew("failed to parse gemini response: %w")]
        ELSE
            [data |-> [Content |-> req.Content,
                       UserLevel |-> req.UserLevel,
                       Requirement |-> req.Requirement,
                       WordCount |-> getTotalWords(req.Content),
                       EstimatedLevel |-> reviewData.data.EstimatedLevel,
                       Scores |-> reviewData.data.Scores,
                       OverallFeedback |-> reviewData.data.OverallFeedback,
                       StrengthPoints |-> reviewData.data.StrengthPoints,
                       ImprovementAreas |-> reviewData.data.ImprovementAreas,
                       Suggestions |-> reviewData.data.Suggestions,
                       CorrectedVersion |-> reviewData.data.CorrectedVersion],
             err |-> NoError]

\* the answer on a cache hit: the log line slices the key first
ServeCachedReview(cacheKey, item) ==
    IF StrLen(cacheKey) < KEY_LOG_PREFIX THEN Panicked
    ELSE Respond(200, item.Data)

\* a handler that holds a lock from its lookup to its store: it waits while
\* another request is between the two
GenerateReviewBegin_locked(p, body) ==
    /\ proc[p].pc = "idle"
    /\ family = "review"
    /\ \A q \in Procs : proc[q].pc # "upstream"
    /\ LET rejected == GenerateReview_validate(body)
           cacheKey == generateReviewCacheKey(body.req)
           now == clock
           item == Lookup(reviewCache, cacheKey)
       IN  proc' = [proc EXCEPT ![p] =
              IF rejected # NoResponse THEN Answered("review", body, rejected)
              ELSE IF IsHit(item, now) THEN
                  Answered("review", body, ServeCachedReview(cacheKey, item))
              ELSE [IdleProc EXCEPT !.pc = "upstream", !.kind = "review",
                                    !.body = body, !.now = now,
                                    !.calls = IF GeminiClient THEN 1 ELSE 0]]
    /\ UNCHANGED <<reviewCache, cache, clock, GeminiClient, family, input, output>>

\* from the start of the handler to the upstream call
GenerateReviewBegin(p, body) ==
    /\ proc[p].pc = "idle"
    /\ family = "review"
    /\ LET rejected == GenerateReview_validate(body)
           cacheKey == generateReviewCacheKey(body.req)
           now == clock
           item == Lookup(reviewCache, cacheKey)
       IN  proc' = [proc EXCEPT ![p] =
              IF rejected # NoResponse THEN Answered("review", body, rejected)
              ELSE IF IsHit(item, now) THEN
                  Answered("review", body, ServeCachedReview(cacheKey, item))
              ELSE [IdleProc EXCEPT !.pc = "upstream", !.kind = "review",
                                    !.body = body, !.now = now,
                                    !.calls = IF GeminiClient THEN 1 ELSE 0]]
    /\ UNCHANGED <<reviewCache, cache, clock, GeminiClient, family, input, output>>

\* an end of the handler that stores before it looks at the error
GenerateReviewEnd_storesFirst(p, outcome) ==
    /\ proc[p].pc = "upstream"
    /\ proc[p].kind = "review"
    /\ LET request == proc[p].body.req
           cacheKey == generateReviewCacheKey(request)
           result == generateReviewWithGemini(request, proc[p].now, outcome)
       IN  /\ reviewCache' = Store(reviewCache, cacheKey,
                                   [Data |-> result.data,
                                    ExpiresAt |-> proc[p].now + CACHE_DURATION])
           /\ proc' = [proc EXCEPT ![p] =
                 [Answered("review", proc[p].body,
                           IF result.err # NoError THEN serviceUnavailable
                           ELSE Respond(200, result.data))
                     EXCEPT !.calls = proc[p].calls, !.err = result.err]]
    /\ UNCHANGED <<cache, clock, GeminiClient, family, input, output>>

\* from the return of the upstream call to the end of the handler
GenerateReviewEnd(p, outcome) ==
    /\ proc[p].pc = "upstream"
    /\ proc[p].kind = "review"
    /\ LET request == proc[p].body.req
           cacheKey == generateReviewCacheKey(request)
           result == generateReviewWithGemini(request, proc[p].now, outcome)
       IN  IF result.err # NoError THEN
               /\ proc' = [proc EXCEPT ![p] =
                     [Answered("review", proc[p].body, serviceUnavailable)
                         EXCEPT !.calls = proc[p].calls, !.err = result.err]]
               /\ UNCHANGED reviewCache
           ELSE
               /\ reviewCache' = Store(reviewCache, cacheKey,
                                       [Data |-> result.data,
                                        ExpiresAt |-> proc[p].now + CACHE_DURATION])
               /\ proc' = [proc EXCEPT ![p] =
                     [Answered("review", proc[p].body, Respond(200, result.data))
                         EXCEPT !.calls = proc[p].calls]]
    /\ UNCHANGED <<cache, clock, GeminiClient, family, input, output>>

GetReviewStats(p) ==
    /\ proc[p].pc = "idle"
    /\ family = "review"
    /\ proc' = [proc EXCEPT ![p] =
                  Answered("stats", NoBody,
                           Respond(200, [cache_entries |-> Cardinality(DOMAIN reviewCache),
                                         min_words |-> MIN_TOTAL_WORDS,
                                         max_words |-> MAX_TOTAL_WORDS]))]
    /\ UNCHANGED <<reviewCache, cache, clock, GeminiClient, family, input, output>>

\* a clear that answers without replacing the map
ClearReviewCache_keeps(p) ==
    /\ proc[p].pc = "idle"
    /\ family = "review"
    /\ proc' = [proc EXCEPT ![p] =
                  Answered("clear", NoBody,
                           Respond(200, [status |-> "success",
                                         message |-> "Review cache cleared successfully"]))]
    /\ UNCHANGED <<reviewCache, cache, clock, GeminiClient, family, input, output>>

ClearReviewCache(p) ==
    /\ proc[p].pc = "idle"
    /\ family = "review"
    /\ reviewCache' = EmptyMap
    /\ proc' = [proc EXCEPT ![p] =
                  Answered("clear", NoBody,
                           Respond(200, [status |-> "success",
                                         message |-> "Review cache cleared successfully"]))]
    /\ UNCHANGED <<cache, clock, GeminiClient, family, input, output>>

-----------------------------------------------------------------------------
(* GenerateAssignment *)

GenerateAssignment_validate(body) ==
    IF ~body.ok THEN Respond(400, ErrorsNew("Invalid JSON request"))
    ELSE LET err == validateRequest(body.req)
         IN  IF err # NoError THEN Respond(400, err) ELSE NoResponse

failedToGenerate == Respond(500, ErrorsNew("Failed to generate quizzes"))

\* a handler that looks its key up before it validates the request
GenerateAssignmentBegin_lookupFirst(p, body) ==
    /\ proc[p].pc = "idle"
    /\ family = "assignment"
    /\ LET rejected == GenerateAssignment_validate(body)
           cacheKey == generateCacheKey(body.req)
           now == clock
           item == Lookup(cache, cacheKey)
       IN  proc' = [proc EXCEPT ![p] =
              IF ~body.ok THEN Answered("assignment", body, rejected)
              ELSE IF IsHit(item, now) THEN
                  Answered("assignment", body, Respond(200, item.Data))
              ELSE IF rejected # NoResponse THEN Answered("assignment", body, rejected)
              ELSE [IdleProc EXCEPT !.pc = "upstream", !.kind = "assignment",
                                    !.body = body, !.now = now,
                                    !.calls = IF GeminiClient THEN 1 ELSE 0]]
    /\ UNCHANGED <<reviewCache, cache, clock, GeminiClient, family, input, output>>

\* from the start of the handler to the first upstream call
GenerateAssignmentBegin(p, body) ==
    /\ proc[p].pc = "idle"
    /\ family = "assignment"
    /\ LET rejected == GenerateAssignment_validate(body)
           cacheKey == generateCacheKey(body.req)
           now == clock
           item == Lookup(cache, cacheKey)
       IN  proc' = [proc EXCEPT ![p] =
              IF rejected # NoResponse THEN Answered("assignment", body, rejected)
              ELSE IF IsHit(item, now) THEN
                  Answered("assignment", body, Respond(200, item.Data))
              ELSE [IdleProc EXCEPT !.pc = "upstream", !.kind = "assignment",
                                    !.body = body, !.now = now,
                                    !.calls = IF GeminiClient THEN 1 ELSE 0]]
    /\ UNCHANGED <<reviewCache, cache, clock, GeminiClient, family, input, output>>

\* the end of GenerateAssignment, once generateQuizzesWithGemini has its quizzes
GenerateAssignmentStore(p, quizzes) ==
    LET request == proc[p].body.req
        response == quizResponse(request, quizzes)
    IN  /\ cache' = Store(cache, generateCacheKey(request),
                          [Data |-> response,
                           ExpiresAt |-> proc[p].now + ASSIGNMENT_CACHE_DURATION])
        /\ proc' = [proc EXCEPT ![p] =
              [Answered("assignment", proc[p].body, Respond(201, response))
                  EXCEPT !.calls = proc[p].calls]]

\* the first upstream call returns: parse, then backfill or finish
GenerateAssignmentFirst(p, outcome) ==
    /\ proc[p].pc = "upstream"
    /\ proc[p].kind = "assignment"
    /\ LET req == proc[p].body.req
           geminiResp == callGemini(outcome)
           parsed == parseGeminiResponse(geminiResp.text, req.AssignmentTypes)
       IN  IF geminiResp.err # NoError \/ parsed.err # NoError THEN
               /\ proc' = [proc EXCEPT ![p] =
                     [Answered("assignment", proc[p].body, failedToGenerate)
                         EXCEPT !.calls = proc[p].calls,
                                !.err = IF geminiResp.err # NoError
                                        THEN ErrorsNew("gemini API call failed: %w")
                                        ELSE ErrorsNew("failed to parse gemini response: %w")]]
               /\ UNCHANGED cache
           ELSE IF Len(parsed.data) < req.TotalQuestions THEN
               \* generateAdditionalQuizzes: needed > 0, a second call
               /\ proc' = [proc EXCEPT ![p].pc = "backfill",
                                       ![p].quizzes = parsed.data,
                                       ![p].calls = @ + 1]
               /\ UNCHANGED cache
           ELSE GenerateAssignmentStore(p, parsed.data)
    /\ UNCHANGED <<reviewCache, clock, GeminiClient, family, input, output>>

\* a backfill that puts the additional quizzes in front of the first ones
GenerateAssignmentBackfill_prepends(p, outcome) ==
    /\ proc[p].pc = "backfill"
    /\ LET req == proc[p].body.req
           response == callGemini(outcome)
           additional == parseGeminiResponse(response.text, req.AssignmentTypes)
           failed == response.err # NoError \/ additional.err # NoError
       IN  GenerateAssignmentStore(p,
               IF failed THEN proc[p].quizzes
               ELSE additional.data \o proc[p].quizzes)
    /\ UNCHANGED <<reviewCache, clock, GeminiClient, family, input, output>>

\* the backfill call returns: its quizzes are appended unless it failed
GenerateAssignmentBackfill(p, outcome) ==
    /\ proc[p].pc = "backfill"
    /\ LET req == proc[p].body.req
           response == callGemini(outcome)
           additional == parseGeminiResponse(response.text, req.AssignmentTypes)
           failed == response.err # NoError \/ additional.err # NoError
       IN  GenerateAssignmentStore(p,
               IF failed THEN proc[p].quizzes
               ELSE proc[p].quizzes \o additional.data)
    /\ UNCHANGED <<reviewCache, clock, GeminiClient, family, input, output>>

-----------------------------------------------------------------------------
(* Unsynchronised map accesses                                             *)
(*                                                                         *)
(* Each request runs on a goroutine of its own and the handlers take no    *)
(* lock. Two accesses of a cache map that overlap either take effect one   *)
(* after the other, which the interleaving of the handler steps covers,    *)
(* or, when one of them is a store into the map, are caught by the         *)
(* runtime, which ends the process with a fatal error: every request in    *)
(* flight is left without an answer and the maps are gone. Replacing the   *)
(* map variable (ClearReviewCache) and len (GetReviewStats) are not caught.*)

\* slot p has a generation in flight that stores when it succeeds
PendingStore(p) == GeminiClient /\ proc[p].pc \in {"upstream", "backfill"}

FatalProc(msg) ==
    [IdleProc EXCEPT !.pc = "fatal", !.resp = Respond(0, [fatal |-> msg])]

\* the store of slot p overlaps the store of slot q or the lookup of a
\* request arriving at the idle slot q, and the runtime catches it
ConcurrentMapAccess(p, q) ==
    /\ p # q
    /\ PendingStore(p)
    /\ PendingStore(q) \/ proc[q].pc = "idle"
    /\ proc' = [r \in Procs |->
                  FatalProc(IF PendingStore(q) THEN "concurrent map writes"
                            ELSE "concurrent map read and map write")]
    /\ reviewCache' = EmptyMap
    /\ cache' = EmptyMap
    /\ UNCHANGED <<clock, GeminiClient, family, input, output>>

-----------------------------------------------------------------------------
(* Environment *)

\* the response has been written: the slot is free again
Finish(p) ==
    /\ proc[p].pc = "done"
    /\ proc' = [proc EXCEPT ![p] = IdleProc]
    /\ UNCHANGED <<reviewCache, cache, clock, GeminiClient, family, input, output>>

\* the instants at which the clock is read: around the start and around
\* the expiry of what was stored at the start
Instants == {0, 1} \cup (CACHE_DURATION..MaxTime)

Tick ==
    /\ clock < MaxTime
    /\ clock' = CHOOSE t \in Instants : t > clock /\ \A u \in Instants : u > clock => t <= u
    /\ UNCHANGED <<proc, reviewCache, cache, GeminiClient, family, input, output>>

-----------------------------------------------------------------------------
(* Inputs *)

\* n words of one letter, single spaces between them
Words(n) == [i \in 1..(2 * n - 1) |-> IF i % 2 = 1 THEN Run("a", 1) ELSE Run(" ", 1)]

\* every string of at most MaxRuns runs over the alphabet, each run 1 or 2 long
ShortStrings(alphabet) ==
    LET runs == {Run(c, n) : c \in alphabet, n \in {1, 2}}
        all == UNION {[1..k -> runs] : k \in 0..MaxRuns}
    IN  {s \in all : \A i \in 1..(Len(s) - 1) : s[i].c # s[i + 1].c}

Body(req) == [ok |-> TRUE, req |-> req]

\* a body json.NewDecoder(r.Body).Decode rejects
BadBody == NoBody

LevelB1 == Str(<<"B", "1">>)
LevelC1 == Str(<<"C", "1">>)

ReviewRequest(content, level, requirement) ==
    [Content |-> content, UserLevel |-> level, Requirement |-> requirement,
     Category |-> <<>>, Language |-> <<>>]

\* the review requests of the handler specification: two that share a cache
\* key, one whose key has ten characters, one undecodable
ReviewBodies ==
    {Body(ReviewRequest(Words(MIN_TOTAL_WORDS), LevelB1, <<>>)),
     Body(ReviewRequest(Words(MIN_TOTAL_WORDS), LevelC1, <<>>)),
     Body(ReviewRequest(Words(MIN_TOTAL_WORDS), LevelB1, <<Run("x", BigLen)>>)),
     BadBody}

AssignmentRequest(topic, types, level, total) ==
    [Topic |-> topic, AssignmentTypes |-> types, EnglishLevel |-> level,
     TotalQuestions |-> total]

AssignmentBodies ==
    {Body(AssignmentRequest(Words(1), <<MultipleChoice>>, LevelB1, 2)),
     Body(AssignmentRequest(Words(1), <<MultipleChoice>>, LevelB1, 0)),
     BadBody}

Member(name, jv) == <<name, jv>>

Txt == Str(<<"o", "k">>)

SuggestionObject ==
    JObj(<<Member("category", JStr(Str(<<"G">>))),
           Member("suggestion", JStr(Txt)),
           Member("priority", JStr(Str(<<"H">>)))>>)

\* the members an upstream review object is built from
ReviewMembers ==
    {Member("overall_feedback", JStr(Txt)),
     Member("overall_feedback", JStr(<<>>)),
     Member("overall_feedback", JNum(1)),
     Member("estimated_level", JStr(LevelC1)),
     Member("scores", JObj(<<Member("overall", JNum(7))>>)),
     Member("suggestions", JNull),
     Member("suggestions", JArr(<<>>)),
     Member("suggestions", JArr(<<SuggestionObject>>)),
     Member("suggestions", JArr(<<JStr(Txt), JNull>>)),
     Member("suggestions", JArr(<<JStr(Txt), SuggestionObject>>))}

\* the ways the upstream wraps a document
Envelopes(doc) ==
    {<<doc>>,
     <<FenceJsonTok, WsTok, doc, WsTok, FenceTok>>,
     <<WsTok, FenceJsonTok, doc, FenceTok, WsTok>>,
     <<FenceTok, doc, FenceTok>>,
     <<doc, JunkTok>>}

ReviewTexts ==
    {<<>>, <<JunkTok>>} \cup
    UNION {Envelopes(DocTok(JObj(members))) :
              members \in UNION {[1..k -> ReviewMembers] : k \in 0..MaxMembers}}

ReviewDoc(members) == UpstreamText(<<FenceJsonTok, WsTok, DocTok(JObj(members)), WsTok, FenceTok>>)

\* upstream answers of the handler specification
ReviewOutcomes ==
    {UpstreamError,
     UpstreamText(<<JunkTok>>),
     ReviewDoc(<<Member("overall_feedback", JStr(Txt)),
                 Member("suggestions", JArr(<<SuggestionObject>>))>>),
     ReviewDoc(<<Member("overall_feedback", JStr(<<>>))>>)}

QuizObject(type, question, options, index) ==
    JObj(<<Member("type", JStr(type)), Member("question", JStr(question)),
           Member("options", JArr(options)), Member("correct_index", JNum(index))>>)

GoodQuiz == QuizObject(MultipleChoice, Txt, <<JStr(Txt), JStr(Str(<<"n", "o">>))>>, 1)
BadQuiz == QuizObject(MultipleChoice, Txt, <<JStr(Txt)>>, 0)
OtherQuiz == QuizObject(MultipleChoice, Str(<<"n", "o">>), <<JStr(Txt), JStr(Txt)>>, 0)
EssayQuiz == QuizObject(Essay, Txt, <<>>, 0)

QuizDoc(quizzes) == UpstreamText(<<DocTok(JObj(<<Member("quizzes", JArr(quizzes))>>))>>)

QuizOutcomes ==
    {UpstreamError,
     UpstreamText(<<JunkTok>>),
     QuizDoc(<<GoodQuiz, BadQuiz>>),
     QuizDoc(<<OtherQuiz>>),
     QuizDoc(<<GoodQuiz, GoodQuiz, GoodQuiz>>)}

-----------------------------------------------------------------------------
(* The handlers' specification *)

NotApplied == [done |-> FALSE, res |-> NoData]
Applied(res) == [done |-> TRUE, res |-> res]

NoInput == [kind |-> "none", arg |-> NoData]

ServerInit ==
    /\ proc = [p \in Procs |-> IdleProc]
    /\ reviewCache = EmptyMap
    /\ cache = EmptyMap
    /\ clock = 0

Init ==
    /\ ServerInit
    /\ GeminiClient \in BOOLEAN
    /\ family \in {"review", "assignment"}
    /\ input = NoInput
    /\ output = NotApplied

Next ==
    \/ \E p \in Procs, body \in ReviewBodies : GenerateReviewBegin(p, body)
    \/ \E p \in Procs, outcome \in ReviewOutcomes : GenerateReviewEnd(p, outcome)
    \/ \E p \in Procs : GetReviewStats(p)
    \/ \E p \in Procs : ClearReviewCache(p)
    \/ \E p \in Procs, body \in AssignmentBodies : GenerateAssignmentBegin(p, body)
    \/ \E p \in Procs, outcome \in QuizOutcomes : GenerateAssignmentFirst(p, outcome)
    \/ \E p \in Procs, outcome \in QuizOutcomes : GenerateAssignmentBackfill(p, outcome)
    \/ \E p, q \in Procs : ConcurrentMapAccess(p, q)
    \/ \E p \in Procs : Finish(p)
    \/ Tick

Spec == Init /\ [][Next]_vars

-----------------------------------------------------------------------------
(* The validators' specification: one request is drawn and its handler's   *)
(* decode-and-validate step is applied to it.                              *)

Padded(s) == Concat(<<Run(" ", 2)>>, Concat(s, <<Run("\n", 1)>>))

ReviewContents ==
    ShortStrings({"a", " "})
    \cup {Words(n) : n \in {5, MIN_TOTAL_WORDS - 1, MIN_TOTAL_WORDS,
                            MIN_TOTAL_WORDS + 1, MAX_TOTAL_WORDS - 1,
                            MAX_TOTAL_WORDS, MAX_TOTAL_WORDS + 1}}
    \cup {Padded(Words(MIN_TOTAL_WORDS)), Padded(Words(MIN_TOTAL_WORDS - 1))}

Levels == {<<>>, LevelB1, Str(<<"b", "1">>), Str(<<"C", "2">>), Str(<<"Z", "9">>)}

Topics ==
    {<<>>, <<Run(" ", 1)>>, Words(1), Words(MAX_TOPIC_WORDS),
     Words(MAX_TOPIC_WORDS + 1), Padded(Words(MAX_TOPIC_WORDS))}

TypeLists ==
    {[i \in 1..n |-> MultipleChoice] :
        n \in {0, 1, 2, 3, MAX_TOTAL_QUESTIONS, MAX_TOTAL_QUESTIONS + 1}}
    \cup {<<MultipleChoice, Essay>>, <<Str(<<"x">>)>>}

Totals == {-1, 0, 1, 2, 3, MAX_TOTAL_QUESTIONS, MAX_TOTAL_QUESTIONS + 1}

ValidateInputs ==
    {[kind |-> "review", arg |-> Body(ReviewRequest(c, l, <<>>))] :
        c \in ReviewContents, l \in Levels}
    \cup {[kind |-> "assignment", arg |-> Body(AssignmentRequest(t, ts, l, n))] :
            t \in Topics, ts \in TypeLists, l \in Levels, n \in Totals}
    \cup {[kind |-> "review", arg |-> BadBody], [kind |-> "assignment", arg |-> BadBody]}

FunctionInit ==
    /\ ServerInit
    /\ GeminiClient = TRUE
    /\ family = "none"
    /\ output = NotApplied

InitValidate == FunctionInit /\ input \in ValidateInputs

ApplyValidateReview ==
    /\ input.kind = "review"
    /\ ~output.done
    /\ output' = Applied(GenerateReview_validate(input.arg))
    /\ UNCHANGED <<proc, reviewCache, cache, clock, GeminiClient, family, input>>

ApplyValidateAssignment ==
    /\ input.kind = "assignment"
    /\ ~output.done
    /\ output' = Applied(GenerateAssignment_validate(input.arg))
    /\ UNCHANGED <<proc, reviewCache, cache, clock, GeminiClient, family, input>>

NextValidate == ApplyValidateReview \/ ApplyValidateAssignment

SpecValidate == InitValidate /\ [][NextValidate]_vars

-----------------------------------------------------------------------------
(* The review parser's specification: one upstream text is drawn and       *)
(* parsed.                                                                 *)

InitParse ==
    /\ FunctionInit
    /\ input \in {[kind |-> "review_text", arg |-> text] : text \in ReviewTexts}

ApplyParseReview ==
    /\ input.kind = "review_text"
    /\ ~output.done
    /\ output' = Applied(parseGeminiReviewResponse(input.arg))
    /\ UNCHANGED <<proc, reviewCache, cache, clock, GeminiClient, family, input>>

NextParse == ApplyParseReview

SpecParse == InitParse /\ [][NextParse]_vars

-----------------------------------------------------------------------------
(* The prompt builders' specification: one request is drawn; the           *)
(* distribution is computed once, a prompt is built twice.                 *)

TypeNames == {MultipleChoice, FillInTheBlank, Essay}

\* validated assignment requests
PromptRequests ==
    {req \in {AssignmentRequest(Words(1), types, level, total) :
                 types \in UNION {[1..n -> TypeNames] : n \in 1..MaxTypes},
                 level \in {LevelB1, englishLevels[3]},
                 total \in {1, 2, 3, 4, 5, 10, MAX_TOTAL_QUESTIONS}} :
        validateRequest(req) = NoError}

\* validated review requests
ReviewPromptRequests ==
    {[ReviewRequest(Words(MIN_TOTAL_WORDS), level, requirement)
         EXCEPT !.Category = category, !.Language = language] :
        level \in {<<>>, LevelB1, Str(<<"b", "1">>)},
        requirement \in {<<>>, Txt},
        category \in {<<>>, Essay, ToLower(Essay), Txt},
        language \in {<<>>, LanguageVi, Txt}}

PromptInputs ==
    {[kind |-> "distribute", arg |-> req] : req \in PromptRequests}
    \cup {[kind |-> "quiz_prompt", arg |-> req] : req \in PromptRequests}
    \cup {[kind |-> "review_prompt", arg |-> req] : req \in ReviewPromptRequests}

\* the results of the calls made so far
Called(results, calls) == [done |-> Len(results) = calls, res |-> results]

InitPrompt ==
    /\ ServerInit
    /\ GeminiClient = TRUE
    /\ family = "none"
    /\ input \in PromptInputs
    /\ output = Called(<<>>, 1)

ApplyDistribute ==
    /\ input.kind = "distribute"
    /\ ~output.done
    /\ output' = Called(<<distributeQuestionTypes(input.arg.AssignmentTypes,
                                                  input.arg.TotalQuestions)>>, 1)
    /\ UNCHANGED <<proc, reviewCache, cache, clock, GeminiClient, family, input>>

ApplyBuildGeminiPrompt ==
    /\ input.kind = "quiz_prompt"
    /\ ~output.done
    /\ \E order \in RangeOrders(distributeQuestionTypes(input.arg.AssignmentTypes,
                                                        input.arg.TotalQuestions)) :
          output' = Called(Append(output.res, buildGeminiPrompt(input.arg, order)), 2)
    /\ UNCHANGED <<proc, reviewCache, cache, clock, GeminiClient, family, input>>

ApplyBuildReviewPrompt ==
    /\ input.kind = "review_prompt"
    /\ ~output.done
    /\ output' = Called(Append(output.res, buildReviewPrompt(input.arg)), 2)
    /\ UNCHANGED <<proc, reviewCache, cache, clock, GeminiClient, family, input>>

NextPrompt == ApplyDistribute \/ ApplyBuildGeminiPrompt \/ ApplyBuildReviewPrompt

SpecPrompt == InitPrompt /\ [][NextPrompt]_vars

-----------------------------------------------------------------------------
(* The quiz parser's specification: a candidate item is drawn and checked, *)
(* or an upstream text and a list of requested types are drawn and the     *)
(* text is parsed.                                                         *)

Blank == Str(<<" ">>)

OtherType == Str(<<"e", "s", "s", "a", "y">>)

\* candidate items as isValidQuiz receives them
CandidateQuizzes ==
    {[ID |-> 0, Type |-> type, Question |-> question, Answer |-> answer,
      Options |-> [i \in 1..n |-> Txt], CorrectIndex |-> index,
      Explanation |-> <<>>] :
        type \in {MultipleChoice, FillInTheBlank, ShortAnswer, Essay, OtherType, <<>>},
        question \in {<<>>, Blank, Txt},
        answer \in {<<>>, Txt},
        n \in 0..MaxOptions,
        index \in -1..MaxOptions}

\* an upstream item with an answer member
AnswerObject(type, question, answer) ==
    JObj(<<Member("type", JStr(type)), Member("question", JStr(question)),
           Member("answer", JStr(answer))>>)

QuizObjects ==
    {GoodQuiz, BadQuiz,
     QuizObject(MultipleChoice, Txt, <<JStr(Txt), JStr(Txt)>>, 2),
     AnswerObject(FillInTheBlank, Txt, Txt),
     AnswerObject(FillInTheBlank, Padded(Txt), Blank),
     AnswerObject(ShortAnswer, Blank, Txt),
     AnswerObject(Essay, Padded(Txt), <<>>),
     AnswerObject(OtherType, Txt, Txt),
     JObj(<<Member("type", JStr(Essay)), Member("question", JNum(1))>>)}

QuizTexts ==
    {<<>>, <<JunkTok>>} \cup
    UNION {Envelopes(DocTok(JObj(<<Member("quizzes", JArr(quizzes))>>))) :
              quizzes \in UNION {[1..k -> QuizObjects] : k \in 0..MaxQuizzes}}

RequestedTypes ==
    {<<MultipleChoice>>, <<Essay, MultipleChoice>>,
     <<FillInTheBlank, ShortAnswer, Essay>>}

QuizInputs ==
    {[kind |-> "quiz", arg |-> quiz] : quiz \in CandidateQuizzes}
    \cup {[kind |-> "quiz_text", arg |-> [response |-> text, requestedTypes |-> types]] :
            text \in QuizTexts, types \in RequestedTypes}

InitQuiz == FunctionInit /\ input \in QuizInputs

ApplyIsValidQuiz ==
    /\ input.kind = "quiz"
    /\ ~output.done
    /\ output' = Applied(isValidQuiz(input.arg))
    /\ UNCHANGED <<proc, reviewCache, cache, clock, GeminiClient, family, input>>

ApplyParseQuiz ==
    /\ input.kind = "quiz_text"
    /\ ~output.done
    /\ output' = Applied(parseGeminiResponse(input.arg.response,
                                             input.arg.requestedTypes))
    /\ UNCHANGED <<proc, reviewCache, cache, clock, GeminiClient, family, input>>

NextQuiz == ApplyIsValidQuiz \/ ApplyParseQuiz

SpecQuiz == InitQuiz /\ [][NextQuiz]_vars

-----------------------------------------------------------------------------
(* The word counters' specification: a text is drawn and counted by each   *)
(* of the three functions, as it is and with white space around it.        *)

WordTexts ==
    LET runs == {Run(c, n) : c \in {"a", "b", " ", "\n"}, n \in {1, 2}}
        all == UNION {[1..k -> runs] : k \in 0..MaxWordRuns}
    IN  {s \in all : \A i \in 1..(Len(s) - 1) : s[i].c # s[i + 1].c}

InitWords ==
    /\ FunctionInit
    /\ input \in {[kind |-> "words", arg |-> text] : text \in WordTexts}

ApplyCountWords ==
    /\ input.kind = "words"
    /\ ~output.done
    /\ output' = Applied([review |-> getTotalWords(input.arg),
                          utils |-> GetTotalWords(input.arg),
                          handler |-> handlerGetTotalWords(input.arg),
                          padded |-> getTotalWords(Padded(input.arg)),
                          trimmed |-> getTotalWords(TrimSpace(input.arg))])
    /\ UNCHANGED <<proc, reviewCache, cache, clock, GeminiClient, family, input>>

NextWords == ApplyCountWords

SpecWords == InitWords /\ [][NextWords]_vars

-----------------------------------------------------------------------------
(* The handlers under requests that share a cache key: the same handler    *)
(* steps as above, taken on requests whose keys are the same text. The     *)
(* review key keeps only the length of the joined text and the word count; *)
(* the assignment key joins its parts with a separator that the parts may  *)
(* contain, and validateRequest never reads the level.                     *)

\* a level text made of parts with the separator between them
LevelOf(parts) == Join(parts, Dash)

\* a valid review request and one with an unknown level, both under "18-10"
SharedKeyReviewBodies ==
    {Body(ReviewRequest(Words(MIN_TOTAL_WORDS), LevelB1, <<>>)),
     Body(ReviewRequest(Words(MIN_TOTAL_WORDS), Str(<<"Z", "9">>), <<>>))}

\* two valid assignment requests and one with more types than questions,
\* all three under "a-Multiple Choice-Essay-Essay-B1-2"
SharedKeyAssignmentBodies ==
    {Body(AssignmentRequest(Words(1), <<MultipleChoice, Essay>>,
                            LevelOf(<<Essay, LevelB1>>), 2)),
     Body(AssignmentRequest(Words(1), <<MultipleChoice>>,
                            LevelOf(<<Essay, Essay, LevelB1>>), 2)),
     Body(AssignmentRequest(Words(1), <<MultipleChoice, Essay, Essay>>, LevelB1, 2)),
     BadBody}

SharedKeyReviewOutcomes ==
    {UpstreamError,
     ReviewDoc(<<Member("overall_feedback", JStr(Txt)),
                 Member("suggestions", JArr(<<SuggestionObject>>))>>)}

SharedKeyQuizOutcomes ==
    {UpstreamError, QuizDoc(<<EssayQuiz, GoodQuiz>>)}

NextSharedKeys ==
    \/ \E p \in Procs, body \in SharedKeyReviewBodies : GenerateReviewBegin(p, body)
    \/ \E p \in Procs, outcome \in SharedKeyReviewOutcomes : GenerateReviewEnd(p, outcome)
    \/ \E p \in Procs, body \in SharedKeyAssignmentBodies : GenerateAssignmentBegin(p, body)
    \/ \E p \in Procs, outcome \in SharedKeyQuizOutcomes : GenerateAssignmentFirst(p, outcome)
    \/ \E p \in Procs, outcome \in SharedKeyQuizOutcomes : GenerateAssignmentBackfill(p, outcome)
    \/ \E p \in Procs : Finish(p)
    \/ Tick

SpecSharedKeys == Init /\ [][NextSharedKeys]_vars

-----------------------------------------------------------------------------
(* Properties *)

\* slot p takes a review request that passes validation
TakesReview(p) ==
    /\ proc[p].pc = "idle"
    /\ proc'[p].kind = "review"
    /\ proc'[p].body.ok
    /\ validateReviewRequest(proc'[p].body.req) = NoError

\* slot p takes an assignment request that passes validation
TakesAssignment(p) ==
    /\ proc[p].pc = "idle"
    /\ proc'[p].kind = "assignment"
    /\ proc'[p].body.ok
    /\ validateRequest(proc'[p].body.req) = NoError

ReviewKey(p) == generateReviewCacheKey(proc[p].body.req)

\* C1: a validated review request that finds an unexpired entry under its
\* key is answered, without a panic and without an upstream call, with
\* exactly the cached value, whatever the length of the key.
C1_CachedReviewIsServed ==
    [][\A p \in Procs :
         TakesReview(p) =>
            LET item == Lookup(reviewCache, generateReviewCacheKey(proc'[p].body.req))
            IN  IsHit(item, clock) =>
                   /\ proc'[p].pc = "done"
                   /\ proc'[p].resp = Respond(200, item.Data)
                   /\ proc'[p].calls = 0]_vars

\* C2: in both caches an entry (R, E) under K is a hit yielding R unchanged
\* at any time before E, and a miss (the handler regenerates) from E on.
C2_CacheRoundTrip ==
    [][\A p \in Procs :
         /\ TakesReview(p) =>
               LET item == Lookup(reviewCache, generateReviewCacheKey(proc'[p].body.req))
               IN  item.found =>
                      IF clock < item.ExpiresAt
                      THEN proc'[p].resp.body = item.Data
                      ELSE proc'[p].pc = "upstream"
         /\ TakesAssignment(p) =>
               LET item == Lookup(cache, generateCacheKey(proc'[p].body.req))
               IN  item.found =>
                      IF clock < item.ExpiresAt
                      THEN proc'[p].resp.body = item.Data
                      ELSE proc'[p].pc = "upstream"]_vars

\* the keys whose entry is written by this step
Written(old, new) ==
    {k \in DOMAIN new : k \notin DOMAIN old \/ old[k] # new[k]}

\* C3: an entry is a hit for the full fixed duration counted from the
\* moment it is stored: one hour in reviewCache, ten minutes in cache.
C3_FullDurationFromStore ==
    [][/\ \A k \in Written(reviewCache, reviewCache') :
             reviewCache'[k].ExpiresAt = clock' + CACHE_DURATION
       /\ \A k \in Written(cache, cache') :
             cache'[k].ExpiresAt = clock' + ASSIGNMENT_CACHE_DURATION]_vars

\* C4: ClearReviewCache leaves no earlier entry reachable, and a key comes
\* back only when a later generation stores under it.
C4_ClearLeavesNothing ==
    [][/\ \A p \in Procs :
             proc[p].pc = "idle" /\ proc'[p].kind = "clear" =>
                \A k \in DOMAIN reviewCache : ~Lookup(reviewCache', k).found
       /\ \A k \in DOMAIN reviewCache' \ DOMAIN reviewCache :
             \E p \in Procs :
                /\ proc[p].pc = "upstream"
                /\ proc[p].kind = "review"
                /\ ReviewKey(p) = k
                /\ proc'[p].resp.status = 200]_vars

\* C4 witness: a review was generated and stored, and a clear has since
\* removed it
C4_Witness ==
    \E p, q \in Procs :
        /\ proc[p].pc = "done" /\ proc[p].kind = "clear"
        /\ proc[q].pc = "done" /\ proc[q].kind = "review"
        /\ proc[q].resp.status = 200 /\ proc[q].calls = 1
        /\ ~Lookup(reviewCache, ReviewKey(q)).found

\* C5: a review generation that fails (the upstream call, the parse, or the
\* check of the parsed result) answers 503 with the fixed body, never the
\* error itself, and stores nothing.
C5_FailureIsFixed503 ==
    [][\A p \in Procs :
         /\ proc[p].pc = "upstream"
         /\ proc[p].kind = "review"
         /\ proc'[p].pc = "done"
         /\ (proc'[p].err # NoError \/ proc'[p].resp.status # 200)
         => /\ proc'[p].resp = serviceUnavailable
            /\ proc'[p].resp.body # proc'[p].err
            /\ proc'[p].err # NoError
            /\ reviewCache' = reviewCache]_vars

\* C5 witness: a generation failed on the parse while another request's
\* review sits in the cache
C5_Witness ==
    \E p \in Procs :
        /\ proc[p].pc = "done" /\ proc[p].kind = "review"
        /\ proc[p].err = ErrorsNew("failed to parse gemini response: %w")
        /\ proc[p].resp = serviceUnavailable
        /\ reviewCache # EmptyMap

\* the review text under test has been parsed, and the parse succeeded
ParsedReview == output.done /\ input.kind = "review_text" /\ output.res.err = NoError

\* C6: every successful result of parseGeminiReviewResponse has a non-empty
\* overall feedback, whichever of the two shapes matched.
C6_FeedbackNeverEmpty ==
    ParsedReview => output.res.data.OverallFeedback # <<>>

\* C7: every successful result of parseGeminiReviewResponse has at least
\* one suggestion.
C7_SuggestionsNeverEmpty ==
    ParsedReview => Len(output.res.data.Suggestions) >= 1

\* the request under test has been through its handler's validation
Validated(kind) == output.done /\ input.kind = kind /\ input.arg.ok

Accepted == output.res = NoResponse

\* C8: a request passes validation only if its level, in whatever letter
\* case, is one of the six proficiency levels A1..C2; an empty level or one
\* outside the set is answered 400.
C8_LevelIsChecked ==
    /\ Validated("review") /\ Accepted =>
          ToUpper(input.arg.req.UserLevel) \in reviewEnglishLevels
    /\ Validated("assignment") /\ Accepted =>
          ToUpper(input.arg.req.EnglishLevel) \in reviewEnglishLevels

\* the words of the trimmed content of the review request under test
ContentWords == FieldsLen(TrimSpace(input.arg.req.Content))

\* the answer is a 400 whose message names the bound n
Names(resp, n) ==
    resp.status = 400 /\ \E i \in 1..Len(resp.body.args) : resp.body.args[i] = n

\* C9 as stated: below 10 or above 1000 words the request is rejected with a
\* 400 whose message names the violated bound; exactly 10 and exactly 1000
\* words are not rejected for their length.
C9_LengthBoundsNamed ==
    Validated("review") =>
       /\ ContentWords < MIN_TOTAL_WORDS => Names(output.res, MIN_TOTAL_WORDS)
       /\ ContentWords > MAX_TOTAL_WORDS => Names(output.res, MAX_TOTAL_WORDS)
       /\ ContentWords \in {MIN_TOTAL_WORDS, MAX_TOTAL_WORDS} =>
             ~Names(output.res, MIN_TOTAL_WORDS) /\ ~Names(output.res, MAX_TOTAL_WORDS)

\* C9 as amended: below 10 or above 1000 words the request is rejected with
\* a 400; the message names the violated bound unless the trimmed content is
\* empty, which has a message of its own; exactly 10 and exactly 1000 words
\* are not rejected for their length.
C9_LengthBounds ==
    Validated("review") =>
       /\ ContentWords < MIN_TOTAL_WORDS =>
             /\ output.res.status = 400
             /\ IF ContentWords = 0
                THEN output.res.body = ErrorsNew("noi dung bai viet khong duoc de trong")
                ELSE Names(output.res, MIN_TOTAL_WORDS)
       /\ ContentWords > MAX_TOTAL_WORDS => Names(output.res, MAX_TOTAL_WORDS)
       /\ ContentWords \in {MIN_TOTAL_WORDS, MAX_TOTAL_WORDS} =>
             ~Names(output.res, MIN_TOTAL_WORDS) /\ ~Names(output.res, MAX_TOTAL_WORDS)

\* C9 witness: a padded text of exactly ten words has been accepted
C9_Witness ==
    /\ Validated("review") /\ Accepted
    /\ ContentWords = MIN_TOTAL_WORDS
    /\ input.arg.req.Content # TrimSpace(input.arg.req.Content)

\* C10: validateRequest accepts exactly the requests whose trimmed topic has
\* 1 to 10 words, whose total is in 1..50 and whose number of types is in
\* 1..total; every other request is answered 400 with an error.
C10_AssignmentAccepted ==
    Validated("assignment") =>
       LET req == input.arg.req
           topicWords == FieldsLen(TrimSpace(req.Topic))
           good == /\ topicWords >= 1
                   /\ topicWords <= MAX_TOPIC_WORDS
                   /\ req.TotalQuestions >= 1
                   /\ req.TotalQuestions <= MAX_TOTAL_QUESTIONS
                   /\ Len(req.AssignmentTypes) >= 1
                   /\ Len(req.AssignmentTypes) <= req.TotalQuestions
       IN  IF good THEN Accepted
           ELSE output.res.status = 400 /\ output.res.body # NoError

\* C10 witness: a request of fifty questions of fifty types has been
\* accepted
C10_Witness ==
    /\ Validated("assignment") /\ Accepted
    /\ input.arg.req.TotalQuestions = MAX_TOTAL_QUESTIONS
    /\ Len(input.arg.req.AssignmentTypes) = MAX_TOTAL_QUESTIONS

RECURSIVE Sum(_, _)
Sum(f, keys) ==
    IF keys = {} THEN 0
    ELSE LET k == CHOOSE k \in keys : TRUE IN f[k] + Sum(f, keys \ {k})

\* C11: for a validated request the counts of distributeQuestionTypes sum
\* to total_questions, and the type at position i of the list (from 1) has
\* floor(total/n) questions, one more when i <= total mod n.
C11_DistributionIsExact ==
    output.done /\ input.kind = "distribute" =>
       LET types == input.arg.AssignmentTypes
           total == input.arg.TotalQuestions
           n == Len(types)
           dist == output.res[1]
       IN  /\ Sum(dist, DOMAIN dist) = total
           /\ \A i \in 1..n :
                 dist[types[i]] = (total \div n) + (IF i <= total % n THEN 1 ELSE 0)

\* C12: two calls of a prompt builder with the same request return the same
\* text.
C12_PromptIsDeterministic ==
    output.done /\ input.kind \in {"quiz_prompt", "review_prompt"} =>
       output.res[1] = output.res[2]

\* the acceptance rule for a candidate item, as the specification words it
MeetsTypeContract(quiz) ==
    /\ quiz.Question # <<>>
    /\ \/ /\ quiz.Type = MultipleChoice
          /\ Len(quiz.Options) >= 2
          /\ 0 <= quiz.CorrectIndex
          /\ quiz.CorrectIndex < Len(quiz.Options)
       \/ quiz.Type \in {FillInTheBlank, ShortAnswer} /\ quiz.Answer # <<>>
       \/ quiz.Type = Essay

\* the items of the upstream document under test, in upstream order, as
\* parseGeminiResponse hands them to isValidQuiz (texts trimmed)
UpstreamItems ==
    LET items == Unmarshal(CleanResponse(input.arg.response), GeminiQuizData).val.Quizzes
    IN  [i \in 1..Len(items) |->
            [ID |-> 0, Type |-> items[i].Type,
             Question |-> TrimSpace(items[i].Question),
             Answer |-> TrimSpace(items[i].Answer),
             Options |-> items[i].Options,
             CorrectIndex |-> items[i].CorrectIndex,
             Explanation |-> TrimSpace(items[i].Explanation)]]

IsKept(quiz) ==
    /\ MeetsTypeContract(quiz)
    /\ \E i \in 1..Len(input.arg.requestedTypes) : input.arg.requestedTypes[i] = quiz.Type

\* C13: isValidQuiz accepts exactly the items that have a question and meet
\* the contract of their type; a successful parseGeminiResponse returns, in
\* upstream order, exactly the accepted items whose type was requested.
C13_ItemsMeetTheirContract ==
    /\ output.done /\ input.kind = "quiz" =>
          (output.res <=> MeetsTypeContract(input.arg))
    /\ output.done /\ input.kind = "quiz_text" /\ output.res.err = NoError =>
          output.res.data = SelectSeq(UpstreamItems, IsKept)

\* C13 witness: of two upstream items the parse kept one and dropped the
\* multiple-choice item that has a single option
C13_Witness ==
    /\ output.done /\ input.kind = "quiz_text" /\ output.res.err = NoError
    /\ Len(UpstreamItems) = 2
    /\ Len(output.res.data) = 1
    /\ \E i \in 1..2 : /\ UpstreamItems[i].Type = MultipleChoice
                       /\ Len(UpstreamItems[i].Options) = 1
                       /\ contains(input.arg.requestedTypes, MultipleChoice)

\* the quizzes of a response without their identifiers
Unnumbered(quizzes) == [i \in 1..Len(quizzes) |-> [quizzes[i] EXCEPT !.ID = 0]]

\* C14: after a successful first call there is at most one more upstream
\* call, made only when the first call gave fewer valid items than asked
\* for; the response has at most total_questions quizzes, Generated is their
\* number, they are numbered 1..Generated, and the items of the first call
\* come before the backfilled ones.
C14_BackfillOnceThenNumber ==
    [][\A p \in Procs :
         proc[p].kind = "assignment" /\ proc[p].pc \in {"upstream", "backfill"} =>
            LET total == proc[p].body.req.TotalQuestions
                response == proc'[p].resp.body
            IN  /\ proc[p].pc = "upstream" /\ proc'[p].pc = "backfill" =>
                      /\ Len(proc'[p].quizzes) < total
                      /\ proc'[p].calls = 2
                /\ proc[p].pc = "backfill" =>
                      proc'[p].pc # "upstream" /\ proc'[p].calls <= 2
                /\ proc'[p].pc = "done" /\ proc'[p].resp.status = 201 =>
                      /\ proc'[p].calls = IF proc[p].pc = "backfill" THEN 2 ELSE 1
                      /\ Len(response.Quizzes) <= total
                      /\ response.Generated = Len(response.Quizzes)
                      /\ \A i \in 1..Len(response.Quizzes) : response.Quizzes[i].ID = i
                      /\ proc[p].pc = "backfill" =>
                            SubSeq(Unnumbered(response.Quizzes), 1, Len(proc[p].quizzes))
                               = proc[p].quizzes]_vars

\* C14 witness: a response of two quizzes, the first from the first call
\* and the second from the backfill call
C14_Witness ==
    \E p \in Procs :
        /\ proc[p].pc = "done" /\ proc[p].kind = "assignment"
        /\ proc[p].resp.status = 201 /\ proc[p].calls = 2
        /\ proc[p].resp.body.Generated = 2
        /\ proc[p].resp.body.Quizzes[1].Question # proc[p].resp.body.Quizzes[2].Question

\* C15: every answer of POST /assignment/generate that carries a quiz list
\* has status 201, whether the list was generated or served from the cache.
C15_QuizListIs201 ==
    \A p \in Procs :
        /\ proc[p].pc = "done"
        /\ proc[p].kind = "assignment"
        /\ proc[p].resp.status \notin {400, 500}
        => proc[p].resp.status = 201

\* the step is a ClearReviewCache
IsClear == \E p \in Procs : proc[p].pc = "idle" /\ proc'[p].kind = "clear"

\* C16: an entry that has not expired keeps its value and its expiry,
\* except through ClearReviewCache; a store to a key happens only when the
\* key is absent or its entry has expired.
C16_EntriesAreReadOnly ==
    [][/\ \A k \in DOMAIN reviewCache :
             reviewCache[k].ExpiresAt > clock /\ ~IsClear =>
                k \in DOMAIN reviewCache' /\ reviewCache'[k] = reviewCache[k]
       /\ \A k \in DOMAIN cache :
             cache[k].ExpiresAt > clock =>
                k \in DOMAIN cache' /\ cache'[k] = cache[k]]_vars

\* a request arriving at slot q reaches its cache lookup
LookupBy(q) ==
    \/ \E body \in ReviewBodies : GenerateReviewBegin(q, body)
    \/ \E body \in AssignmentBodies : GenerateAssignmentBegin(q, body)

C18_OneAttemptThenAnswer ==
    [][\A p \in Procs :
         /\ proc'[p].calls <= (IF proc'[p].kind = "assignment" THEN 2 ELSE 1)
         /\ ~GeminiClient =>
               /\ proc'[p].calls = 0
               /\ \A outcome \in ReviewOutcomes \cup QuizOutcomes :
                     callGemini(outcome) =
                        [text |-> <<>>, err |-> ErrorsNew("Gemini client not initialized")]
         /\ proc[p].pc = "upstream" /\ proc'[p].err # NoError =>
               proc'[p].pc = "done" /\ proc'[p].calls = proc[p].calls
         /\ proc[p].pc \in {"upstream", "backfill"} => proc[p].resp = NoResponse
         /\ proc[p].pc # "done" /\ proc'[p].pc = "done" =>
               proc'[p].resp.status >= 100]_vars

\* the two decodings of the review text under test
StrictShape == Unmarshal(CleanResponse(input.arg), GeminiReviewData)
LooseShape == Unmarshal(CleanResponse(input.arg), FallbackReviewData)

\* C19: when the strict shape fails and the loose one succeeds the result
\* has one suggestion record per string, in order, with that string as
\* Suggestion and the other four fields empty, every other field as
\* decoded; when both shapes fail there is an error and no result.
C19_FallbackUpgrades ==
    output.done /\ input.kind = "review_text" /\ StrictShape.err =>
       IF ~LooseShape.err
       THEN LET loose == LooseShape.val
                data == output.res.data
            IN  /\ output.res.err = NoError
                /\ Len(data.Suggestions) = Len(loose.Suggestions)
                /\ \A i \in 1..Len(loose.Suggestions) :
                      data.Suggestions[i] =
                         [Category |-> <<>>, Issue |-> <<>>,
                          Suggestion |-> loose.Suggestions[i],
                          Example |-> <<>>, Priority |-> <<>>]
                /\ data.EstimatedLevel = loose.EstimatedLevel
                /\ data.Scores = loose.Scores
                /\ data.OverallFeedback = loose.OverallFeedback
                /\ data.StrengthPoints = loose.StrengthPoints
                /\ data.ImprovementAreas = loose.ImprovementAreas
                /\ data.CorrectedVersion = loose.CorrectedVersion
       ELSE /\ output.res.err # NoError
            /\ output.res.data = Zero(GeminiReviewData)

\* C19 witness: a text with feedback, a level and two suggestion strings
\* went through the fallback
C19_Witness ==
    /\ output.done /\ input.kind = "review_text"
    /\ StrictShape.err /\ ~LooseShape.err
    /\ Len(output.res.data.Suggestions) = 2
    /\ output.res.data.Suggestions[1].Suggestion = Txt
    /\ output.res.data.OverallFeedback = Txt
    /\ output.res.data.EstimatedLevel = LevelC1

\* the characters of a string, one by one
RECURSIVE Chars(_)
Chars(s) ==
    IF s = <<>> THEN <<>>
    ELSE [i \in 1..Head(s).n |-> Head(s).c] \o Chars(Tail(s))

\* the number of maximal runs of characters that are not white space
MaximalWordRuns(chars) ==
    Cardinality({i \in 1..Len(chars) :
                    /\ chars[i] \notin Space
                    /\ i = 1 \/ chars[i - 1] \in Space})

\* C20: each of the three word counters returns the number of maximal runs
\* of non-white-space characters; white space before and after the text
\* does not change the count; an empty or all-white-space text counts 0.
C20_WordCount ==
    output.done /\ input.kind = "words" =>
       LET n == MaximalWordRuns(Chars(input.arg))
       IN  /\ output.res.review = n
           /\ output.res.utils = n
           /\ output.res.handler = n
           /\ output.res.padded = n
           /\ output.res.trimmed = n
           /\ (\A i \in 1..Len(input.arg) : IsSpaceRun(input.arg[i])) => n = 0

\* C20 witness: a text of two words, one of them of several different
\* letters, has been counted as it is and with white space around it
C20_Witness ==
    /\ output.done /\ input.kind = "words"
    /\ output.res.review = 2
    /\ output.res.padded = 2
    /\ \E i \in 1..(Len(input.arg) - 1) :
          ~IsSpaceRun(input.arg[i]) /\ ~IsSpaceRun(input.arg[i + 1])

-----------------------------------------------------------------------------
(* Properties of the handlers under shared keys *)

\* the quiz is one the request asked for, of a known type, with the fields
\* its type requires
QuizFitsRequest(quiz, req) ==
    /\ quiz.Question # <<>>
    /\ \E i \in 1..Len(req.AssignmentTypes) : req.AssignmentTypes[i] = quiz.Type
    /\ \E i \in 1..Len(assignmentTypes) : assignmentTypes[i] = quiz.Type
    /\ quiz.Type = MultipleChoice =>
          /\ Len(quiz.Options) >= 2
          /\ 0 <= quiz.CorrectIndex
          /\ quiz.CorrectIndex < Len(quiz.Options)
    /\ quiz.Type \in {FillInTheBlank, ShortAnswer} => quiz.Answer # <<>>

\* slot p ends its assignment request in this step with a quiz response
AnswersQuizzes(p) ==
    /\ proc[p].pc # "done"
    /\ proc'[p].pc = "done"
    /\ proc'[p].kind = "assignment"
    /\ proc'[p].resp.status \in {200, 201}

\* C21: every quiz of a response that GenerateAssignment returns, generated
\* or served from the cache, and every quiz of a response it stores, has a
\* question, a type that the request names and that is one of the four known
\* types, and the fields its type requires.
C21_QuizzesFitTheRequest ==
    [][\A p \in Procs :
         AnswersQuizzes(p) =>
            LET req == proc'[p].body.req
                response == proc'[p].resp.body
            IN  /\ \A i \in 1..Len(response.Quizzes) :
                      QuizFitsRequest(response.Quizzes[i], req)
                /\ \A k \in Written(cache, cache') :
                      \A i \in 1..Len(cache'[k].Data.Quizzes) :
                         QuizFitsRequest(cache'[k].Data.Quizzes[i], req)]_vars

\* the same for generated responses only: they are the ones that are stored
C21_GeneratedQuizzesFit ==
    [][\A p \in Procs :
         AnswersQuizzes(p) /\ proc'[p].resp.status = 201 =>
            LET req == proc'[p].body.req
                response == proc'[p].resp.body
            IN  /\ \A i \in 1..Len(response.Quizzes) :
                      QuizFitsRequest(response.Quizzes[i], req)
                /\ \A k \in Written(cache, cache') :
                      \A i \in 1..Len(cache'[k].Data.Quizzes) :
                         QuizFitsRequest(cache'[k].Data.Quizzes[i], req)]_vars

\* slot p takes a request of one of the two generating handlers in this step
TakesRequest(p) ==
    /\ proc[p].pc = "idle"
    /\ proc'[p].kind \in {"review", "assignment"}

\* what decoding and validation answer to the request slot p holds after
\* the step: the 400 response, or NoResponse
Rejection(p) ==
    IF proc'[p].kind = "review" THEN GenerateReview_validate(proc'[p].body)
    ELSE GenerateAssignment_validate(proc'[p].body)

\* the entry under the key of the request slot p holds after the step, in
\* the cache of its handler before the step
EntryOf(p) ==
    IF proc'[p].kind = "review"
    THEN Lookup(reviewCache, generateReviewCacheKey(proc'[p].body.req))
    ELSE Lookup(cache, generateCacheKey(proc'[p].body.req))

\* slot p, with its upstream call answered, is the one that stores under k
\* in this step
StoresUnder(p, k, kind) ==
    /\ proc[p].pc \in {"upstream", "backfill"}
    /\ proc[p].kind = kind
    /\ proc[p].calls >= 1
    /\ proc'[p].pc = "done"
    /\ proc[p].body.ok
    /\ IF kind = "review"
       THEN /\ validateReviewRequest(proc[p].body.req) = NoError
            /\ k = generateReviewCacheKey(proc[p].body.req)
       ELSE /\ validateRequest(proc[p].body.req) = NoError
            /\ k = generateCacheKey(proc[p].body.req)

\* C22: a request that does not decode or that its validator rejects is
\* answered 400 with the validator's message, whatever the caches hold
\* under its key, makes no upstream call and leaves both maps as they are;
\* only a validated request is answered from the cache or goes upstream, it
\* goes upstream only after its lookup missed, and a store is made only by
\* a validated request whose upstream call has been made.
C22_ValidateLookupCallStore ==
    [][/\ \A p \in Procs :
             TakesRequest(p) =>
                IF Rejection(p) # NoResponse
                THEN /\ proc'[p].pc = "done"
                     /\ proc'[p].resp = Rejection(p)
                     /\ proc'[p].resp.status = 400
                     /\ proc'[p].calls = 0
                     /\ reviewCache' = reviewCache
                     /\ cache' = cache
                ELSE /\ proc'[p].pc = "upstream" <=> ~IsHit(EntryOf(p), clock)
                     /\ proc'[p].pc = "upstream" => proc'[p].now = clock
                     /\ proc'[p].pc # "upstream" => proc'[p].calls = 0
                     /\ reviewCache' = reviewCache
                     /\ cache' = cache
       /\ \A k \in Written(reviewCache, reviewCache') :
             \E p \in Procs : StoresUnder(p, k, "review")
       /\ \A k \in Written(cache, cache') :
             \E p \in Procs : StoresUnder(p, k, "assignment")]_vars

\* C22 witness: a request with more types than questions was answered 400
\* although an unexpired entry sits under its key, and the entry is as the
\* other slot's request stored it
C22_Witness ==
    \E p, q \in Procs :
        /\ proc[p].pc = "done" /\ proc[p].kind = "assignment"
        /\ proc[p].body.ok
        /\ proc[p].resp.status = 400
        /\ IsHit(Lookup(cache, generateCacheKey(proc[p].body.req)), clock)
        /\ proc[q].pc = "done" /\ proc[q].resp.status = 201
        /\ Lookup(cache, generateCacheKey(proc[p].body.req)).Data = proc[q].resp.body

\* slot p holds an assignment request that passed validateRequest
HoldsValidAssignment(p) ==
    /\ proc[p].pc # "idle"
    /\ proc[p].kind = "assignment"
    /\ proc[p].body.ok
    /\ validateRequest(proc[p].body.req) = NoError

\* the two requests agree in what the key is built from
SameRequest(a, b) ==
    /\ ToLower(a.Topic) = ToLower(b.Topic)
    /\ a.AssignmentTypes = b.AssignmentTypes
    /\ a.EnglishLevel = b.EnglishLevel
    /\ a.TotalQuestions = b.TotalQuestions

\* C23: two validated assignment requests have the same cache key only if
\* they have the same topic up to letter case, the same types in the same
\* order, the same level and the same total; a response served from the
\* cache carries the level and the total of the request it answers, its
\* topic up to letter case, and only quizzes of the types it names.
C23_KeyIdentifiesRequest ==
    /\ \A p, q \in Procs :
          /\ HoldsValidAssignment(p)
          /\ HoldsValidAssignment(q)
          /\ generateCacheKey(proc[p].body.req) = generateCacheKey(proc[q].body.req)
          => SameRequest(proc[p].body.req, proc[q].body.req)
    /\ \A p \in Procs :
          HoldsValidAssignment(p) /\ proc[p].pc = "done" /\ proc[p].resp.status = 200 =>
             LET req == proc[p].body.req
                 response == proc[p].resp.body
             IN  /\ ToLower(response.Topic) = ToLower(req.Topic)
                 /\ response.Level = req.EnglishLevel
                 /\ response.Total = req.TotalQuestions
                 /\ \A i \in 1..Len(response.Quizzes) :
                       contains(req.AssignmentTypes, response.Quizzes[i].Type)

====
